---- MODULE Spec2Model ----
(***************************************************************************)
(* Model of biscuits (src/src/main.rs): a dice-elimination game, its       *)
(* removal strategies, the round loop simulate_game and the batch harness  *)
(* run_simulations.                                                        *)
(*                                                                         *)
(* Positions are 0-based as in the source; the die at position p of a pool *)
(* d is d[p + 1].                                                          *)
(***************************************************************************)
EXTENDS Integers, Sequences, FiniteSets, TLC

VARIABLES strategy, dice, total_points, rounds, status, view, indices, ret, batch

vars == <<strategy, dice, total_points, rounds, status, view, indices, ret, batch>>

----------------------------------------------------------------------------
(* Bounds of the model.                                                    *)

\* Number of six-faced dice Game::new puts in the pool (the source puts 12).
NumSix == 1

\* A roll draws from 0 .. faces-1; the model draws the values 0 .. RollLow
\* and the largest value, faces-1.
RollLow == 0

\* Longest pool handed to a strategy called on its own.
MaxLen == 3

\* Largest points of a die in a pool handed to a strategy called on its own.
MaxPoints == 2

\* Longest index list handed to remove_dice by a caller that is not a
\* registered strategy.
MaxIdx == 2

\* Rounds a strategy outside the registry is followed for.
MaxRounds == 3

\* Largest trial count given to run_simulations.
MaxTrials == 3

\* Largest per-trial score drawn for run_simulations.
MaxTrialScore == 2

----------------------------------------------------------------------------
(* Machine integers.                                                       *)

U8_MAX == 255

I8_MIN == -128

\* x as i8
AsI8(x) == IF x % 256 >= 128 THEN (x % 256) - 256 ELSE x % 256

\* u8::max where the source calls u8::min
Min2_as_max(a, b) == IF b > a THEN b ELSE a

Min2(a, b) == IF b < a THEN b ELSE a

Max2(a, b) == IF b > a THEN b ELSE a

----------------------------------------------------------------------------
(* Faces and Die.                                                          *)

Faces == {"Six", "Eight", "Ten", "Twelve"}

\* Faces::value
value(f) == CASE f = "Six" -> 6 [] f = "Eight" -> 8 [] f = "Ten" -> 10 [] f = "Twelve" -> 12

\* derive(PartialOrd, Ord) on Faces: the variants compare in declaration order
faces_ord(f) == CASE f = "Six" -> 0 [] f = "Eight" -> 1 [] f = "Ten" -> 2 [] f = "Twelve" -> 3

Die_six == [faces |-> "Six", points |-> 6]

Die_eight == [faces |-> "Eight", points |-> 8]

Die_ten == [faces |-> "Ten", points |-> 10]

Die_twelve == [faces |-> "Twelve", points |-> 12]

\* The values rng.random_range(0..n) is drawn from in the model.
RollValues(n) == {p \in 0..(n - 1) : p <= RollLow \/ p = n - 1}

\* Die::roll drawing from 0..=faces instead of 0..faces
Die_roll_inclusive(die) ==
    {[faces |-> die.faces, points |-> p] : p \in RollValues(value(die.faces) + 1)}

\* Die::roll: the dice a roll of die can leave
Die_roll(die) == {[faces |-> die.faces, points |-> p] : p \in RollValues(value(die.faces))}

----------------------------------------------------------------------------
(* Game.                                                                   *)

RECURSIVE Repeat(_, _)
Repeat(x, n) == IF n = 0 THEN <<>> ELSE <<x>> \o Repeat(x, n - 1)

\* Game::new
Game_new == Repeat(Die_six, NumSix) \o <<Die_eight, Die_ten, Die_twelve>>

\* roll_all that leaves the first die of the pool as it is
RECURSIVE roll_from_second(_)
roll_from_second(d) ==
    IF d = <<>> THEN {<<>>}
    ELSE {<<x>> \o r : x \in Die_roll(Head(d)), r \in roll_from_second(Tail(d))}

roll_all_but_first(d) ==
    IF d = <<>> THEN {<<>>} ELSE {<<Head(d)>> \o r : r \in roll_from_second(Tail(d))}

\* Game::roll_all: the pools a roll of every die of d can leave
RECURSIVE roll_all(_)
roll_all(d) ==
    IF d = <<>> THEN {<<>>}
    ELSE {<<x>> \o r : x \in Die_roll(Head(d)), r \in roll_all(Tail(d))}

\* Game::is_over
is_over(d) == Len(d) = 0

\* the comparator of indices.sort_unstable_by(|a, b| b.cmp(a)): descending
RECURSIVE insert_desc(_, _)
insert_desc(x, s) ==
    IF s = <<>> THEN <<x>>
    ELSE IF x >= Head(s) THEN <<x>> \o s
    ELSE <<Head(s)>> \o insert_desc(x, Tail(s))

\* the comparator a.cmp(b): ascending
RECURSIVE insert_asc(_, _)
insert_asc(x, s) ==
    IF s = <<>> THEN <<x>>
    ELSE IF x <= Head(s) THEN <<x>> \o s
    ELSE <<Head(s)>> \o insert_asc(x, Tail(s))

RECURSIVE sort_asc(_)
sort_asc(s) == IF s = <<>> THEN <<>> ELSE insert_asc(Head(s), sort_asc(Tail(s)))

RECURSIVE sort_desc(_)
sort_desc(s) == IF s = <<>> THEN <<>> ELSE insert_desc(Head(s), sort_desc(Tail(s)))

\* Vec::swap_remove(p) for p < len: the last element takes position p
swap_remove(d, p) ==
    LET n == Len(d) IN
    [k \in 1..(n - 1) |-> IF k = p + 1 THEN d[n] ELSE d[k]]

\* the loop of remove_dice reading the die without removing it
RECURSIVE remove_loop_no_removal(_, _, _, _)
remove_loop_no_removal(d, ix, pts, ovf) ==
    IF ix = <<>> THEN [dice |-> d, points |-> pts, fault |-> FALSE, overflow |-> ovf]
    ELSE IF Head(ix) >= Len(d)
         THEN [dice |-> d, points |-> pts, fault |-> TRUE, overflow |-> ovf]
         ELSE remove_loop_no_removal(d, Tail(ix),
                                     (pts + d[Head(ix) + 1].points) % (U8_MAX + 1),
                                     ovf \/ pts + d[Head(ix) + 1].points > U8_MAX)

\* the loop of remove_dice over the sorted indices; fault: swap_remove
\* panicked on a position >= len; overflow: the u8 sum passed 255
RECURSIVE remove_loop(_, _, _, _)
remove_loop(d, ix, pts, ovf) ==
    IF ix = <<>> THEN [dice |-> d, points |-> pts, fault |-> FALSE, overflow |-> ovf]
    ELSE IF Head(ix) >= Len(d)
         THEN [dice |-> d, points |-> pts, fault |-> TRUE, overflow |-> ovf]
         ELSE remove_loop(swap_remove(d, Head(ix)), Tail(ix),
                          (pts + d[Head(ix) + 1].points) % (U8_MAX + 1),
                          ovf \/ pts + d[Head(ix) + 1].points > U8_MAX)

\* remove_dice without the sort of the indices
remove_dice_unsorted(d, ix) == remove_loop(d, ix, 0, FALSE)

\* Game::remove_dice
remove_dice(d, ix) == remove_loop(d, sort_desc(ix), 0, FALSE)

----------------------------------------------------------------------------
(* Helpers of the strategies.                                              *)

\* enumerate().filter(..).map(|(i, _)| i).collect(): the positions p >= from,
\* ascending, whose flag keep[p + 1] is set
RECURSIVE collect(_, _)
collect(keep, from) ==
    IF from >= Len(keep) THEN <<>>
    ELSE IF keep[from + 1] THEN <<from>> \o collect(keep, from + 1)
    ELSE collect(keep, from + 1)

\* find_zero_point_dice stopping at the first zero-point die
find_first_zero_point_die(d) ==
    LET all == collect([k \in 1..Len(d) |-> d[k].points = 0], 0) IN
    IF all = <<>> THEN <<>> ELSE <<all[1]>>

find_zero_point_dice(d) == collect([k \in 1..Len(d) |-> d[k].points = 0], 0)

find_big_zero_dice(d) ==
    collect([k \in 1..Len(d) |-> d[k].points = 0 /\ d[k].faces # "Six"], 0)

\* dice.iter().filter(|die| die.faces != Faces::Six).count()
big_dice_count(d) == Cardinality({k \in 1..Len(d) : d[k].faces # "Six"})

\* the loop of find_min_points_die that never updates min_index
RECURSIVE min_points_loop_stuck(_, _, _, _)
min_points_loop_stuck(d, p, min_points, min_index) ==
    IF p >= Len(d) THEN min_index
    ELSE IF d[p + 1].points < min_points
         THEN min_points_loop_stuck(d, p + 1, d[p + 1].points, min_index)
         ELSE min_points_loop_stuck(d, p + 1, min_points, min_index)

\* the loop of find_min_points_die with <= in place of <
RECURSIVE min_points_loop_last(_, _, _, _)
min_points_loop_last(d, p, min_points, min_index) ==
    IF p >= Len(d) THEN min_index
    ELSE IF d[p + 1].points <= min_points
         THEN min_points_loop_last(d, p + 1, d[p + 1].points, p)
         ELSE min_points_loop_last(d, p + 1, min_points, min_index)

\* the loop of find_min_points_die from position p on
RECURSIVE min_points_loop(_, _, _, _)
min_points_loop(d, p, min_points, min_index) ==
    IF p >= Len(d) THEN min_index
    ELSE IF d[p + 1].points < min_points
         THEN min_points_loop(d, p + 1, d[p + 1].points, p)
         ELSE min_points_loop(d, p + 1, min_points, min_index)

find_min_points_die(d) == min_points_loop(d, 0, U8_MAX, 0)

\* the comparator of find_big_min_die comparing the faces before the points
big_min_less_faces_first(a, b) ==
    IF a.faces # b.faces THEN faces_ord(b.faces) < faces_ord(a.faces)
    ELSE a.points < b.points

\* the comparator of find_big_min_die without the tie-break on faces
big_min_less_points_only(a, b) == a.points < b.points

\* the comparator of find_big_min_die: Less when a sorts before b
big_min_less(a, b) ==
    IF a.points # b.points THEN a.points < b.points
    ELSE faces_ord(b.faces) < faces_ord(a.faces)

\* Iterator::min_by from position p on: the first of the equally minimum
\* elements is kept, so the candidate changes only on strictly Less
RECURSIVE big_min_loop(_, _, _)
big_min_loop(d, p, best) ==
    IF p >= Len(d) THEN best
    ELSE IF big_min_less(d[p + 1], d[best + 1])
         THEN big_min_loop(d, p + 1, p)
         ELSE big_min_loop(d, p + 1, best)

\* find_big_min_die counting positions from 1
find_big_min_die_from_one(d) == big_min_loop(d, 1, 0) + 1

\* find_big_min_die on a non-empty pool (unwrap panics on an empty one)
find_big_min_die(d) == big_min_loop(d, 1, 0)

prio_min_for(die) == AsI8(AsI8(value(die.faces)) - 4 * AsI8(die.points))

\* the loop of all_zero_or_prio_min_strategy without the tie-break on faces
RECURSIVE prio_min_loop_first(_, _, _, _, _)
prio_min_loop_first(d, p, best_index, best_max, best_score) ==
    IF p >= Len(d) THEN best_index
    ELSE LET score == prio_min_for(d[p + 1]) IN
         IF score > best_score
         THEN prio_min_loop_first(d, p + 1, p, d[p + 1].faces, score)
         ELSE prio_min_loop_first(d, p + 1, best_index, best_max, best_score)

\* the loop of all_zero_or_prio_min_strategy from position p on
RECURSIVE prio_min_loop(_, _, _, _, _)
prio_min_loop(d, p, best_index, best_max, best_score) ==
    IF p >= Len(d) THEN best_index
    ELSE LET score == prio_min_for(d[p + 1]) IN
         IF score > best_score
            \/ (score = best_score /\ faces_ord(d[p + 1].faces) > faces_ord(best_max))
         THEN prio_min_loop(d, p + 1, p, d[p + 1].faces, score)
         ELSE prio_min_loop(d, p + 1, best_index, best_max, best_score)

----------------------------------------------------------------------------
(* The strategies: each maps a pool to the list of positions to remove.    *)

one_min_strategy(d) == <<find_min_points_die(d)>>

\* all_zero_or_one_min_strategy without the fallback to the min points die
all_zero_only_strategy(d) == find_zero_point_dice(d)

all_zero_or_one_min_strategy(d) ==
    LET zero_indices == find_zero_point_dice(d) IN
    IF zero_indices # <<>> THEN zero_indices ELSE <<find_min_points_die(d)>>

all_zero_or_prio_min_strategy(d) ==
    LET zero_indices == find_zero_point_dice(d) IN
    IF zero_indices # <<>> THEN zero_indices
    ELSE <<prio_min_loop(d, 0, 0, "Six", I8_MIN)>>

all_zero_or_big_min_strategy(d) ==
    LET zero_indices == find_zero_point_dice(d) IN
    IF zero_indices # <<>> THEN zero_indices ELSE <<find_big_min_die(d)>>

\* all_big_zero_or_one_zero_or_big_min_strategy returning every zero-point
\* position where the source returns only the first
all_big_zero_or_all_zero_or_big_min_strategy(d) ==
    LET big_zeros == find_big_zero_dice(d)
        all_zeros == find_zero_point_dice(d)
    IN  IF big_zeros # <<>>
        THEN IF big_dice_count(d) = Len(big_zeros) THEN find_zero_point_dice(d)
             ELSE big_zeros
        ELSE IF all_zeros # <<>> THEN all_zeros
             ELSE <<find_big_min_die(d)>>

all_big_zero_or_one_zero_or_big_min_strategy(d) ==
    LET big_zeros == find_big_zero_dice(d)
        all_zeros == find_zero_point_dice(d)
    IN  IF big_zeros # <<>>
        THEN IF big_dice_count(d) = Len(big_zeros) THEN find_zero_point_dice(d)
             ELSE big_zeros
        ELSE IF all_zeros # <<>>
             THEN IF big_dice_count(d) = 0 THEN all_zeros ELSE <<all_zeros[1]>>
             ELSE <<find_big_min_die(d)>>

\* the registry of main
Strategies == {"one_min", "all_zero_or_one_min", "all_zero_or_prio_min",
               "all_zero_or_big_min", "all_big_zero_or_one_zero_or_big_min"}

\* a call through the fn pointer of type Strategy
call_strategy(s, d) ==
    CASE s = "one_min" -> one_min_strategy(d)
      [] s = "all_zero_or_one_min" -> all_zero_or_one_min_strategy(d)
      [] s = "all_zero_or_prio_min" -> all_zero_or_prio_min_strategy(d)
      [] s = "all_zero_or_big_min" -> all_zero_or_big_min_strategy(d)
      [] s = "all_big_zero_or_one_zero_or_big_min" ->
             all_big_zero_or_one_zero_or_big_min_strategy(d)

----------------------------------------------------------------------------
(* simulate_game.                                                          *)

\* run_simulations has not been entered
NoBatch == [num_simulations |-> 0, i |-> 0, total_points |-> 0, gravies |-> 0,
            min_points |-> U8_MAX, max_points |-> 0, scores |-> <<>>,
            returned |-> FALSE, avg_points |-> [nan |-> FALSE, num |-> 0, den |-> 1]]

\* the state the while loop is left in after an iteration that removed r
loop_status(r, sum) ==
    IF r.fault THEN {"panic"}
    ELSE LET next == IF is_over(r.dice) THEN "over" ELSE "running" IN
         IF r.overflow \/ sum > U8_MAX THEN {"panic", next} ELSE {next}

\* the loop body with total_points = ... in place of total_points += ...
loop_body_assign(rolled, ix) ==
    LET r == remove_dice(rolled, ix)
        sum == r.points
    IN  /\ view' = rolled
        /\ indices' = ix
        /\ ret' = r.points
        /\ dice' = r.dice
        /\ total_points' = sum % (U8_MAX + 1)
        /\ status' \in loop_status(r, sum)
        /\ rounds' = rounds + 1
        /\ UNCHANGED <<strategy, batch>>

\* one iteration of the while loop of simulate_game on the rolled pool, with
\* ix the list the strategy returned for it
loop_body(rolled, ix) ==
    LET r == remove_dice(rolled, ix)
        sum == total_points + r.points
    IN  /\ view' = rolled
        /\ indices' = ix
        /\ ret' = r.points
        /\ dice' = r.dice
        /\ total_points' = sum % (U8_MAX + 1)
        /\ status' \in loop_status(r, sum)
        /\ rounds' = rounds + 1
        /\ UNCHANGED <<strategy, batch>>

\* simulate_game with a registered strategy: the state before the first
\* iteration
Init ==
    /\ strategy \in Strategies
    /\ dice = Game_new
    /\ total_points = 0
    /\ rounds = 0
    /\ status = IF is_over(Game_new) THEN "over" ELSE "running"
    /\ view = <<>>
    /\ indices = <<>>
    /\ ret = 0
    /\ batch = NoBatch

\* simulate_game: roll_all, the strategy, remove_dice, the running total
simulate_game ==
    /\ status = "running"
    /\ ~is_over(dice)
    /\ \E rolled \in roll_all(dice) : loop_body(rolled, call_strategy(strategy, rolled))

Next == simulate_game

Spec == Init /\ [][Next]_vars

----------------------------------------------------------------------------
(* A strategy called on its own, as the unit tests call it.                *)

\* the dice Die::six() .. Die::twelve() with_points(p), 0 <= p < faces
TestDice == {d \in [faces : Faces, points : 0..MaxPoints] : d.points < value(d.faces)}

\* the non-empty pools of at most MaxLen such dice
TestPools == UNION {[1..n -> TestDice] : n \in 1..MaxLen}

InitStrategy ==
    /\ strategy = "unset"
    /\ dice \in TestPools
    /\ total_points = 0
    /\ rounds = 0
    /\ status = "pool"
    /\ view = <<>>
    /\ indices = <<>>
    /\ ret = 0
    /\ batch = NoBatch

\* let indices = strategy(&dice) for a registered strategy s
select(s) ==
    /\ status = "pool"
    /\ strategy' = s
    /\ view' = dice
    /\ indices' = call_strategy(s, dice)
    /\ status' = "selected"
    /\ UNCHANGED <<dice, total_points, rounds, ret, batch>>

\* let min_index = find_big_min_die(&dice), as test_find_big_min_die calls it
call_find_big_min_die ==
    /\ status = "pool"
    /\ strategy' = "find_big_min_die"
    /\ view' = dice
    /\ indices' = <<find_big_min_die(dice)>>
    /\ status' = "selected"
    /\ UNCHANGED <<dice, total_points, rounds, ret, batch>>

NextStrategy ==
    \/ \E s \in Strategies : select(s)
    \/ call_find_big_min_die

SpecStrategy == InitStrategy /\ [][NextStrategy]_vars

----------------------------------------------------------------------------
(* remove_dice called on its own with any index list.                      *)

\* the lists of at most len entries, each in 0 .. n
RECURSIVE IndexLists(_, _)
IndexLists(n, len) ==
    IF len = 0 THEN {<<>>}
    ELSE LET shorter == IndexLists(n, len - 1) IN
         shorter \cup {<<p>> \o l : p \in 0..n, l \in {x \in shorter : Len(x) = len - 1}}

InitRemove ==
    /\ strategy = "unset"
    /\ dice \in roll_all(Game_new)
    /\ total_points = 0
    /\ rounds = 0
    /\ status = "pool"
    /\ view = <<>>
    /\ indices = <<>>
    /\ ret = 0
    /\ batch = NoBatch

\* let ret = game.remove_dice(&mut ix); position Len(dice) is out of range
remove(ix) ==
    LET r == remove_dice(dice, ix) IN
    /\ status = "pool"
    /\ view' = dice
    /\ indices' = ix
    /\ dice' = r.dice
    /\ ret' = r.points
    /\ status' \in IF r.fault THEN {"panic"}
                   ELSE IF r.overflow THEN {"panic", "removed"} ELSE {"removed"}
    /\ UNCHANGED <<strategy, total_points, rounds, batch>>

NextRemove == \E ix \in IndexLists(Len(dice), MaxIdx) : remove(ix)

SpecRemove == InitRemove /\ [][NextRemove]_vars

----------------------------------------------------------------------------
(* simulate_game with any function of type Strategy.                       *)

InitAny ==
    /\ strategy = "any"
    /\ dice = Game_new
    /\ total_points = 0
    /\ rounds = 0
    /\ status = IF is_over(Game_new) THEN "over" ELSE "running"
    /\ view = <<>>
    /\ indices = <<>>
    /\ ret = 0
    /\ batch = NoBatch

\* simulate_game when strategy may return any list of positions
simulate_game_any ==
    /\ status = "running"
    /\ ~is_over(dice)
    /\ rounds < MaxRounds
    /\ \E rolled \in roll_all(dice) :
          \E ix \in IndexLists(Len(rolled), MaxIdx) : loop_body(rolled, ix)

NextAny == simulate_game_any

SpecAny == InitAny /\ [][NextAny]_vars

----------------------------------------------------------------------------
(* run_simulations.                                                        *)

\* total_points as f64 / num_simulations as f64: the quotient num/den, or NaN
\* for 0.0 / 0.0 (x / 0.0 with x > 0 is +inf: den = 0 and not nan)
f64_div(total, n) == [nan |-> (n = 0 /\ total = 0), num |-> total, den |-> n]

\* k as f64 <= q, false when q is NaN
f64_le_int(k, q) == ~q.nan /\ (IF q.den = 0 THEN TRUE ELSE k * q.den <= q.num)

\* q <= k as f64, false when q is NaN
f64_ge_int(k, q) == ~q.nan /\ (IF q.den = 0 THEN FALSE ELSE q.num <= k * q.den)

InitBatch ==
    /\ strategy \in Strategies
    /\ dice = <<>>
    /\ total_points = 0
    /\ rounds = 0
    /\ status = "batch"
    /\ view = <<>>
    /\ indices = <<>>
    /\ ret = 0
    /\ \E n \in 0..MaxTrials : batch = [NoBatch EXCEPT !.num_simulations = n]

\* one iteration of for i in 0..num_simulations, points being what
\* simulate_game(strategy, i) returned
run_simulations_trial(points) ==
    /\ status = "batch"
    /\ ~batch.returned
    /\ batch.i < batch.num_simulations
    /\ batch' = [batch EXCEPT
                   !.i = @ + 1,
                   !.total_points = @ + points,
                   !.gravies = IF points = 0 THEN @ + 1 ELSE @,
                   !.min_points = Min2(@, points),
                   !.max_points = Max2(@, points),
                   !.scores = Append(@, points)]
    /\ UNCHANGED <<strategy, dice, total_points, rounds, status, view, indices, ret>>

\* the end of the loop: avg_points and the returned tuple
run_simulations_return ==
    /\ status = "batch"
    /\ ~batch.returned
    /\ batch.i >= batch.num_simulations
    /\ batch' = [batch EXCEPT
                   !.avg_points = f64_div(batch.total_points, batch.num_simulations),
                   !.returned = TRUE]
    /\ UNCHANGED <<strategy, dice, total_points, rounds, status, view, indices, ret>>

NextBatch ==
    \/ \E points \in 0..MaxTrialScore : run_simulations_trial(points)
    \/ run_simulations_return

SpecBatch == InitBatch /\ [][NextBatch]_vars

----------------------------------------------------------------------------
(* Vocabulary of the properties.                                           *)

\* the positions of a list, as a set
Entries(ix) == {ix[k] : k \in 1..Len(ix)}

\* a list of pairwise distinct positions of the pool d
DistinctInRange(ix, d) ==
    /\ \A k \in 1..Len(ix) : ix[k] \in 0..(Len(d) - 1)
    /\ \A j, k \in 1..Len(ix) : j # k => ix[j] # ix[k]

RECURSIVE SumOver(_, _)
SumOver(d, ps) ==
    IF ps = {} THEN 0
    ELSE LET p == CHOOSE q \in ps : TRUE IN d[p + 1].points + SumOver(d, ps \ {p})

\* how many dice of the pool d at the positions ps equal die
CountAt(d, ps, die) == Cardinality({p \in ps : d[p + 1] = die})

AllPositions(d) == 0..(Len(d) - 1)

\* the pools a and b (b restricted to the positions ps) hold the same dice,
\* each as many times
SameDice(a, b, ps) ==
    /\ Len(a) = Cardinality(ps)
    /\ \A p \in AllPositions(a) : CountAt(a, AllPositions(a), a[p + 1]) = CountAt(b, ps, a[p + 1])

\* the dice of d at the positions ps, in the order of d
RECURSIVE KeptInOrder(_, _, _)
KeptInOrder(d, ps, from) ==
    IF from >= Len(d) THEN <<>>
    ELSE IF from \in ps THEN <<d[from + 1]>> \o KeptInOrder(d, ps, from + 1)
    ELSE KeptInOrder(d, ps, from + 1)

\* the sum of faces-1 over the pool Game::new builds (87 for 12 six-faced dice)
RECURSIVE FacesMinusOne(_)
FacesMinusOne(d) == IF d = <<>> THEN 0 ELSE value(Head(d).faces) - 1 + FacesMinusOne(Tail(d))

MaxScore == FacesMinusOne(Game_new)

ZeroPositions(d) == {p \in AllPositions(d) : d[p + 1].points = 0}

----------------------------------------------------------------------------
(* Properties.                                                             *)

\* C1: with a registered strategy every round of simulate_game removes at
\* least one die and none faults, so after k rounds at most (pool size - k)
\* dice are left, the loop runs exactly while dice are left, and the game
\* is over after at most (pool size) rounds.
C1_TerminatesWithinPoolSize ==
    /\ status \in {"running", "over"}
    /\ rounds + Len(dice) <= Len(Game_new)
    /\ (status = "over") = is_over(dice)

C1_Witness == status = "over" /\ rounds = Len(Game_new)

\* C2: on a non-empty pool with 0 <= points < faces every registered
\* strategy returns a non-empty list of pairwise distinct positions of the
\* pool.
C2_SelectionValid ==
    status = "selected" =>
        /\ \A k \in 1..Len(view) : view[k].points \in 0..(value(view[k].faces) - 1)
        /\ indices # <<>>
        /\ DistinctInRange(indices, view)

C2_Witness == status = "selected" /\ Len(indices) >= 2 /\ Len(indices) < Len(view)

\* C3: the running total and the sum returned by remove_dice stay within
\* 0 .. MaxScore (the sum of faces-1 over the initial pool), MaxScore fits a
\* u8, and no u8 addition overflows.
C3_ScoreBounds ==
    /\ MaxScore <= U8_MAX
    /\ total_points \in 0..MaxScore
    /\ ret \in 0..MaxScore
    /\ status # "panic"

C3_Witness == status = "over" /\ total_points = MaxScore

\* C4: the pool has its full size at the start and every round leaves it
\* strictly smaller than it was before the round.
C4_PoolShrinks == Len(dice) = Len(Game_new) /\ [][Len(dice') < Len(dice)]_vars

C4_Witness == rounds >= 2 /\ status = "running" /\ Len(dice) < Len(Game_new) - rounds

\* C5: for pairwise distinct in-range positions in any order remove_dice
\* returns the sum of the points the dice at those positions had, and leaves
\* the dice of the other positions, each as many times as before.
C5_RemoveExact ==
    (status \in {"removed", "panic"} /\ DistinctInRange(indices, view)) =>
        /\ status = "removed"
        /\ ret = SumOver(view, Entries(indices))
        /\ Len(dice) = Len(view) - Len(indices)
        /\ SameDice(dice, view, AllPositions(view) \ Entries(indices))

C5_Witness ==
    /\ status = "removed"
    /\ Len(indices) = 2
    /\ indices[1] < indices[2]
    /\ ret > 0

\* the positions of the pool view that remove_dice was not asked to remove
Survivors == AllPositions(view) \ Entries(indices)

\* at most one surviving die lies behind the lowest removed position
OneSurvivorBehind ==
    \A p \in Entries(indices) : Cardinality({q \in Survivors : q > p}) <= 1

\* C6 as claimed: after remove_dice with pairwise distinct in-range
\* positions the surviving dice are in the pool in the relative order they
\* had before the call.
C6_OrderKept ==
    (status = "removed" /\ DistinctInRange(indices, view)) =>
        dice = KeptInOrder(view, Survivors, 0)

\* C6 as amended: the surviving dice keep their relative order when at most
\* one surviving die lies behind the lowest removed position; in every case
\* the dice in front of the lowest removed position stay where they were,
\* and the dice behind it are the surviving dice in some order.
C6_OrderKeptNearEnd ==
    (status \in {"removed", "panic"} /\ DistinctInRange(indices, view) /\ indices # <<>>) =>
        LET low == CHOOSE p \in Entries(indices) : \A q \in Entries(indices) : p <= q
        IN  /\ status = "removed"
            /\ OneSurvivorBehind => dice = KeptInOrder(view, Survivors, 0)
            /\ \A k \in 1..low : dice[k] = view[k]
            /\ SameDice(dice, view, Survivors)

C6_Witness ==
    /\ status = "removed"
    /\ DistinctInRange(indices, view)
    /\ Len(indices) = 2
    /\ OneSurvivorBehind
    /\ Len(dice) = 2
    /\ dice[1] # dice[2]

\* C7: remove_dice ignores duplicate and out-of-range entries of the index
\* list: it does not fault, removes the die of each in-range position once
\* and no other, and returns the sum of the points of those dice.
C7_BadEntriesIgnored ==
    (status \in {"removed", "panic"} /\ ~DistinctInRange(indices, view)) =>
        LET valid == Entries(indices) \cap AllPositions(view) IN
        /\ status = "removed"
        /\ ret = SumOver(view, valid)
        /\ SameDice(dice, view, AllPositions(view) \ valid)

\* C8: when the strategy returns an empty selection for a non-empty pool,
\* simulate_game ends in a fatal error instead of going on to another roll.
C8_EmptySelectionFatal ==
    (rounds > 0 /\ indices = <<>> /\ view # <<>>) => status = "panic"

\* C9: under the three all_zero_or_* strategies, a round whose roll left a
\* zero-point die selects exactly the zero-point positions, and no die that
\* rolled 0 is left in the pool after the removal.
C9_ZerosAllRemoved ==
    (/\ strategy \in {"all_zero_or_one_min", "all_zero_or_prio_min", "all_zero_or_big_min"}
     /\ rounds > 0
     /\ ZeroPositions(view) # {}) =>
        /\ Entries(indices) = ZeroPositions(view)
        /\ Len(indices) = Cardinality(ZeroPositions(view))
        /\ ZeroPositions(dice) = {}
        /\ ret = 0

C9_Witness ==
    /\ strategy \in {"all_zero_or_one_min", "all_zero_or_prio_min", "all_zero_or_big_min"}
    /\ rounds > 0
    /\ Cardinality(ZeroPositions(view)) >= 2
    /\ status = "running"

\* the number of zero entries of a list of scores
ZeroCount(scores) == Cardinality({k \in 1..Len(scores) : scores[k] = 0})

\* C10: for every trial count run_simulations accepts, the returned
\* aggregate has minimum <= average <= maximum and gravies equal to the
\* number of trials that scored 0.
C10_AggregateConsistent ==
    batch.returned =>
        /\ f64_le_int(batch.min_points, batch.avg_points)
        /\ f64_ge_int(batch.max_points, batch.avg_points)
        /\ batch.gravies = ZeroCount(batch.scores)

\* C12: the running total never decreases: after each round it is the
\* total before the round plus the summed points of the dice removed in the
\* round.
C12_TotalMonotone ==
    [][/\ ret' = SumOver(view', Entries(indices'))
       /\ total_points' = total_points + ret'
       /\ total_points' >= total_points]_vars

C12_Witness == rounds >= 2 /\ ret > 0 /\ total_points > ret

\* the positions of the non-six-faced dice of a pool
BigPositions(d) == {p \in AllPositions(d) : d[p + 1].faces # "Six"}

\* the die at position p has the lowest points of the pool and, among the
\* dice with those points, the most faces
IsBigMin(d, p) ==
    \A q \in AllPositions(d) :
        \/ d[p + 1].points < d[q + 1].points
        \/ /\ d[p + 1].points = d[q + 1].points
           /\ faces_ord(d[p + 1].faces) >= faces_ord(d[q + 1].faces)

\* the list ix holds exactly the positions ps, each once
SelectsExactly(ix, ps) == Entries(ix) = ps /\ Len(ix) = Cardinality(ps)

\* C13: the five cases of all_big_zero_or_one_zero_or_big_min_strategy on a
\* non-empty pool: (1) some but not all non-six-faced dice are at 0: those
\* positions; (2) all non-six-faced dice are at 0: every zero-point
\* position; (3) no non-six-faced die at 0, a six-faced die at 0 and a
\* non-six-faced die in the pool: the first zero-point position only;
\* (4) no non-six-faced die in the pool and a die at 0: every zero-point
\* position; (5) otherwise the single big-min position.
C13_BigZeroCases ==
    (status = "selected" /\ strategy = "all_big_zero_or_one_zero_or_big_min") =>
        LET big == BigPositions(view)
            zeros == ZeroPositions(view)
            big_zeros == big \cap zeros
        IN  /\ (big_zeros # {} /\ big_zeros # big) => SelectsExactly(indices, big_zeros)
            /\ (big_zeros # {} /\ big_zeros = big) => SelectsExactly(indices, zeros)
            /\ (big_zeros = {} /\ zeros # {} /\ big # {}) =>
                   /\ Len(indices) = 1
                   /\ indices[1] \in zeros
                   /\ \A q \in zeros : indices[1] <= q
            /\ (big = {} /\ zeros # {}) => SelectsExactly(indices, zeros)
            /\ zeros = {} => (Len(indices) = 1 /\ IsBigMin(view, indices[1]))

C13_Witness ==
    /\ status = "selected"
    /\ strategy = "all_big_zero_or_one_zero_or_big_min"
    /\ BigPositions(view) # {}
    /\ BigPositions(view) \cap ZeroPositions(view) = {}
    /\ Cardinality(ZeroPositions(view)) >= 2
    /\ Len(indices) = 1

\* C15: on a non-empty pool one_min_strategy returns exactly one position;
\* no die has fewer points than the die there, and every die before it has
\* strictly more.
C15_OneMinFirstLowest ==
    (status = "selected" /\ strategy = "one_min") =>
        /\ Len(indices) = 1
        /\ indices[1] \in AllPositions(view)
        /\ \A q \in AllPositions(view) : view[indices[1] + 1].points <= view[q + 1].points
        /\ \A q \in 0..(indices[1] - 1) : view[q + 1].points > view[indices[1] + 1].points

C15_Witness ==
    /\ status = "selected"
    /\ strategy = "one_min"
    /\ indices[1] = 1
    /\ Len(view) = 3
    /\ view[3].points = view[2].points

\* the weight of points in prio_min_for
PrioWeight == 4

PrioScore(die) == value(die.faces) - PrioWeight * die.points

\* the pool of test_all_zero_or_prio_min_strategy
PrioExample ==
    << [faces |-> "Six", points |-> 3], [faces |-> "Eight", points |-> 1],
       [faces |-> "Ten", points |-> 4], [faces |-> "Twelve", points |-> 2] >>

\* C14: on a non-empty pool without a zero-point die
\* all_zero_or_prio_min_strategy returns exactly one position, that of a die
\* with the largest faces - PrioWeight * points, among those of one with the
\* most faces, and among those the first; on the pool
\* [(6,3),(8,1),(10,4),(12,2)] it selects position 3, and without that die
\* position 1.
C14_PrioMinChoice ==
    /\ all_zero_or_prio_min_strategy(PrioExample) = <<3>>
    /\ all_zero_or_prio_min_strategy(SubSeq(PrioExample, 1, 3)) = <<1>>
    /\ (status = "selected" /\ strategy = "all_zero_or_prio_min" /\ ZeroPositions(view) = {}) =>
          /\ Len(indices) = 1
          /\ indices[1] \in AllPositions(view)
          /\ LET best == view[indices[1] + 1] IN
             \A q \in AllPositions(view) :
                LET die == view[q + 1] IN
                /\ PrioScore(die) <= PrioScore(best)
                /\ PrioScore(die) = PrioScore(best) =>
                       faces_ord(die.faces) <= faces_ord(best.faces)
                /\ (PrioScore(die) = PrioScore(best) /\ die.faces = best.faces) =>
                       indices[1] <= q

C14_Witness ==
    /\ status = "selected"
    /\ strategy = "all_zero_or_prio_min"
    /\ ZeroPositions(view) = {}
    /\ Len(view) = 3
    /\ indices = <<2>>
    /\ PrioScore(view[1]) = PrioScore(view[3])
    /\ PrioScore(view[2]) < PrioScore(view[3])

\* the pool d without its k-th die
Without(d, k) == [j \in 1..(Len(d) - 1) |-> IF j < k THEN d[j] ELSE d[j + 1]]

\* the pools that hold the dice of d in any order
RECURSIVE Reorderings(_)
Reorderings(d) ==
    IF d = <<>> THEN {<<>>}
    ELSE UNION {{<<d[k]>> \o r : r \in Reorderings(Without(d, k))} : k \in 1..Len(d)}

\* C16: the (faces, points) of the die find_big_min_die chooses, and of the
\* die all_zero_or_prio_min_strategy chooses on a pool without a zero-point
\* die, is the same for every order of the dice of the pool.
C16_ChoiceIgnoresOrder ==
    /\ (status = "selected" /\ strategy = "find_big_min_die") =>
          \A other \in Reorderings(view) :
             other[find_big_min_die(other) + 1] = view[indices[1] + 1]
    /\ (status = "selected" /\ strategy = "all_zero_or_prio_min" /\ ZeroPositions(view) = {}) =>
          \A other \in Reorderings(view) :
             other[all_zero_or_prio_min_strategy(other)[1] + 1] = view[indices[1] + 1]

C16_Witness ==
    /\ status = "selected"
    /\ strategy = "find_big_min_die"
    /\ Len(view) = 3
    /\ indices = <<2>>
    /\ view[1].points = view[3].points
    /\ view[2].points > view[3].points

\* C17: the dice Game::new builds have points = faces, and every die of the
\* pool a strategy is given in simulate_game has 0 <= points < faces.
C17_RolledBeforeInspection ==
    /\ rounds = 0 => (view = <<>> /\ \A k \in 1..Len(dice) : dice[k].points = value(dice[k].faces))
    /\ rounds > 0 => (view # <<>> /\
                      \A k \in 1..Len(view) : view[k].points \in 0..(value(view[k].faces) - 1))

C17_Witness ==
    /\ rounds >= 2
    /\ \E k \in 1..Len(view) : view[k].points = value(view[k].faces) - 1
    /\ \E k \in 1..Len(view) : view[k].points = 0

RECURSIVE SumSeq(_)
SumSeq(q) == IF q = <<>> THEN 0 ELSE Head(q) + SumSeq(Tail(q))

\* C18: for a batch of at least one trial run_simulations returns the
\* smallest score as minimum, the largest as maximum and the sum of the
\* scores over the trial count as average; a trial that scored 0 makes the
\* minimum 0.
C18_AggregateExact ==
    (batch.returned /\ batch.num_simulations >= 1) =>
        LET scores == batch.scores
            at == 1..Len(scores)
        IN  /\ Len(scores) = batch.num_simulations
            /\ \E k \in at : scores[k] = batch.min_points
            /\ \A k \in at : batch.min_points <= scores[k]
            /\ \E k \in at : scores[k] = batch.max_points
            /\ \A k \in at : batch.max_points >= scores[k]
            /\ ~batch.avg_points.nan
            /\ batch.avg_points.num = SumSeq(scores)
            /\ batch.avg_points.den = Len(scores)
            /\ (\E k \in at : scores[k] = 0) => batch.min_points = 0

C18_Witness ==
    /\ batch.returned
    /\ batch.num_simulations >= 2
    /\ batch.min_points > 0
    /\ batch.max_points > batch.min_points

\* C19: in every round of a registered strategy, a roll that shows a
\* zero-point die makes the strategy select zero-point dice only and adds 0,
\* and a roll that shows none adds a strictly positive amount; so the total
\* is 0 after a round exactly when it was 0 before and the roll showed a
\* zero-point die, and the final score is 0 exactly when every round did.
C19_ZeroScoreIffZeroEveryRound ==
    [][LET zero == ZeroPositions(view') # {} IN
       /\ zero => (Entries(indices') \subseteq ZeroPositions(view') /\ ret' = 0)
       /\ ~zero => ret' > 0
       /\ (total_points' = 0) = (total_points = 0 /\ zero)]_vars

C19_Witness == status = "over" /\ total_points = 0 /\ rounds >= 2

\* C20: under one_min, all_zero_or_one_min, all_zero_or_big_min and
\* all_big_zero_or_one_zero_or_big_min the amount a round adds to the total
\* is the lowest points among the dice of the rolled pool.
C20_RoundAddsMinimum ==
    (/\ strategy \in {"one_min", "all_zero_or_one_min", "all_zero_or_big_min",
                      "all_big_zero_or_one_zero_or_big_min"}
     /\ rounds > 0) =>
        /\ \E k \in 1..Len(view) : view[k].points = ret
        /\ \A k \in 1..Len(view) : ret <= view[k].points
        /\ ret > 0 => Len(indices) = 1

C20_Witness ==
    /\ strategy \in {"all_zero_or_big_min", "all_big_zero_or_one_zero_or_big_min"}
    /\ rounds >= 2
    /\ ret > 0
    /\ Len(view) >= 2

====
